---- MODULE Spec2Model ----
(***************************************************************************)
(* Model of pyrad/engine/trainer.py: the Trainer's setup(), its step loop  *)
(* train(), checkpoint save/load, the evaluation runner and the viewer     *)
(* render, as one process working against a checkpoint directory that      *)
(* outlives the process.                                                   *)
(*                                                                         *)
(* The scene model and the optimizers are opaque to the trainer: their     *)
(* state is modelled as the history of updates applied to them, so two     *)
(* states are equal exactly when the same batches were applied in the same *)
(* order.                                                                  *)
(***************************************************************************)
EXTENDS Integers, Sequences, FiniteSets, TLC

\* ---------------------------------------------------------------- bounds
MaxIter == 3          \* largest config.trainer.max_num_iterations drawn
MaxEvalLen == 2       \* largest number of images the evaluation reader yields
MaxRuns == 2          \* processes started one after another on the same disk

\* Python's None, for the nullable options (steps_per_save,
\* steps_per_render_image, resume_train.load_dir)
None == -1

\* the one checkpoint directory (config.trainer.model_dir, and load_dir when
\* a run is resumed)
ModelDir == 1

Cadences == {0, 1, 2}

VARIABLES
    config,       \* self.config, read-only after construction
    pc,           \* position of the process in setup()/train()
    err,          \* the exception that ended the process, "none" if none
    start_step,   \* self.start_step
    step,         \* the loop variable of train()
    iterPos,      \* position of iter_dataloader_train
    batch,        \* the batch fetched for the current step
    params,       \* self.graph: model parameters (history of updates)
    mode,         \* self.graph: "train" or "eval" (torch module mode)
    wrapped,      \* self.graph is a DDP wrapper
    registered,   \* self.graph.register_callbacks() was called
    optim,        \* self.optimizers: state of the optimizers
    disk,         \* the checkpoint directory: a set of files [path, content]
    evalPos,      \* pairs the evaluation reader has yielded in this call
    evalStep,     \* the step argument of eval_with_dataloader
    evalCaller,   \* who called eval_with_dataloader: "train" or "direct"
    trace,        \* what this process has done so far, in order
    lastSave,     \* per step, the states at the moment of the latest save
    run,          \* number of the process on this disk
    other         \* the other replica of a two-replica job, << >> if none

vars == <<config, pc, err, start_step, step, iterPos, batch, params, mode,
          wrapped, registered, optim, disk, evalPos, evalStep, evalCaller,
          trace, lastSave, run, other>>

\* ------------------------------------------------------------ helpers
Truthy(x) == x # None /\ x # 0

Ev(kind, s) == [kind |-> kind, step |-> s]

Emit(kind, s) == Append(trace, Ev(kind, s))

\* the batch the deterministic training reader yields at position i
ReaderBatch(i) == i

\* ------------------------------------------------------ configurations
Viewers == {[enable |-> FALSE, steps_per_render_image |-> None]}
           \cup [enable : {TRUE}, steps_per_render_image : {None, 1, 2}]

Ranks == {[world_size |-> 1, local_rank |-> 0],
          [world_size |-> 2, local_rank |-> 0],
          [world_size |-> 2, local_rank |-> 1]}

Resumes == {[load_dir |-> None, load_step |-> 0]}
           \cup [load_dir : {ModelDir}, load_step : 0 .. MaxIter]

Configs == [max_num_iterations : 0 .. MaxIter,
            steps_per_log : Cadences,
            steps_per_save : {None} \cup Cadences,
            steps_per_test : Cadences,
            viewer : Viewers,
            dist : Ranks,
            resume_train : Resumes]

\* ------------------------------------------------------------ __init__
Init ==
    /\ config \in Configs
    /\ pc = "constructed"
    /\ err = "none"
    /\ start_step = 0
    /\ step = 0
    /\ iterPos = 0
    /\ batch = None
    /\ params = << >>
    /\ mode = "train"
    /\ wrapped = FALSE
    /\ registered = FALSE
    /\ optim = << >>
    /\ disk = {}
    /\ evalPos = 0
    /\ evalStep = 0
    /\ evalCaller = "train"
    /\ trace = << >>
    /\ lastSave = {}
    /\ run = 1
    /\ other = << >>

\* ------------------------------------------------------ checkpoint files
\* f"{step:09d}": the decimal digits of step, zero-padded to nine places
Pad9(s) == [i \in 1 .. 9 |-> (s \div (10 ^ (9 - i))) % 10]

\* os.path.join(dir, f"step-{step:09d}.ckpt")
CkptPath(dir, s) == <<dir, "step-", Pad9(s), ".ckpt">>

\* os.path.exists(path)
PathExists(path) == \E f \in disk : f.path = path

\* torch.load(path)
LoadFile(path) == (CHOOSE f \in disk : f.path = path).content

\* torch.save(content, path): creates the file or replaces it
SaveFile(path, content) ==
    {f \in disk : f.path # path} \cup {[path |-> path, content |-> content]}

\* graph.state_dict() / graph.module.state_dict(): the base parameters,
\* whether or not the graph is wrapped
StateDict == params

\* {k: v.state_dict() for (k, v) in self.optimizers.optimizers.items()}
OptimizersStateDict == optim

\* graph.load_graph(loaded_state)
load_graph(loaded_state) == loaded_state.model

\* optimizers.load_optimizers(loaded_state)
load_optimizers(loaded_state) == loaded_state.optimizers

LoadedStartStepSame(loaded_state) == loaded_state.step

\* line 161: self.start_step = loaded_state["step"] + 1
LoadedStartStep(loaded_state) == loaded_state.step + 1

\* line 158: the path _load_checkpoint reads
LoadPath ==
    CkptPath(config.resume_train.load_dir, config.resume_train.load_step)

CheckpointContentNoOptimizers(s) ==
    [step |-> s, model |-> StateDict, optimizers |-> << >>]

\* lines 178-185: the dictionary _save_checkpoint writes
CheckpointContent(s) ==
    [step |-> s, model |-> StateDict, optimizers |-> OptimizersStateDict]

\* line 177: the path _save_checkpoint writes
SavePath(s) == CkptPath(ModelDir, s)

\* @check_main_thread: the decorated method runs on local rank 0 only
check_main_thread == config.dist.local_rank = 0

\* --------------------------------------------------------------- setup()
ResumeConfigured == Truthy(config.resume_train.load_dir)

DistributedAlways == config.dist.world_size > 0

Distributed == config.dist.world_size > 1

\* the other replica of the job, when the job has two
HasPeer == other # << >>

Peer == other[1]

\* lines 90-94, run once the optional load has succeeded: a distributed run
\* wraps the graph and enters the barrier, any other run goes on to register
\* the callbacks
SetupTail(tr) ==
    tr \o (IF Distributed
           THEN <<Ev("wrap", None), Ev("barrier", None)>>
           ELSE <<Ev("register_callbacks", None)>>)

\* where setup() is after SetupTail: blocked in dist.barrier, or returned
SetupTailPc == IF Distributed THEN "barrier" ELSE "ready"

\* dist.barrier returns once every replica of the job has entered it
BarrierReached ==
    IF HasPeer
    THEN \E i \in DOMAIN Peer.trace : Peer.trace[i].kind = "barrier"
    ELSE TRUE

\* lines 92-94: dist.barrier returns and the callbacks are registered
BarrierPass ==
    /\ pc = "barrier"
    /\ BarrierReached
    /\ registered' = TRUE
    /\ trace' = Emit("register_callbacks", None)
    /\ pc' = "ready"
    /\ UNCHANGED <<config, err, start_step, step, iterPos, batch, params,
                   mode, wrapped, optim, disk, evalPos, evalStep, evalCaller,
                   lastSave, run, other>>

SetupMissingCheckpointAfterWrap ==
    /\ pc = "constructed"
    /\ ResumeConfigured
    /\ ~PathExists(LoadPath)
    /\ pc' = "failed"
    /\ err' = "CheckpointNotFound"
    /\ wrapped' = Distributed
    /\ trace' = trace \o <<Ev("setup", None)>>
                      \o (IF Distributed
                          THEN <<Ev("wrap", None), Ev("barrier", None)>>
                          ELSE << >>)
    /\ UNCHANGED <<config, start_step, step, iterPos, batch, params, mode,
                   registered, optim, disk, evalPos, evalStep, evalCaller,
                   lastSave, run, other>>

\* setup() with a resume checkpoint that does not exist: the assert of
\* line 159 raises out of _load_checkpoint and out of setup()
SetupMissingCheckpoint ==
    /\ pc = "constructed"
    /\ ResumeConfigured
    /\ ~PathExists(LoadPath)
    /\ pc' = "failed"
    /\ err' = "CheckpointNotFound"
    /\ trace' = Emit("setup", None)
    /\ UNCHANGED <<config, start_step, step, iterPos, batch, params, mode,
                   wrapped, registered, optim, disk, evalPos, evalStep,
                   evalCaller, lastSave, run, other>>

\* setup() resuming from an existing checkpoint
SetupResume ==
    /\ pc = "constructed"
    /\ ResumeConfigured
    /\ PathExists(LoadPath)
    /\ LET loaded_state == LoadFile(LoadPath) IN
        /\ start_step' = LoadedStartStep(loaded_state)
        /\ params' = load_graph(loaded_state)
        /\ optim' = load_optimizers(loaded_state)
        /\ trace' = SetupTail(trace \o <<Ev("setup", None),
                                          Ev("load", loaded_state.step)>>)
    /\ wrapped' = Distributed
    /\ registered' = ~Distributed
    /\ pc' = SetupTailPc
    /\ UNCHANGED <<config, err, step, iterPos, batch, mode, disk, evalPos,
                   evalStep, evalCaller, lastSave, run, other>>

\* setup() of a fresh run
SetupFresh ==
    /\ pc = "constructed"
    /\ ~ResumeConfigured
    /\ trace' = SetupTail(Emit("setup", None))
    /\ wrapped' = Distributed
    /\ registered' = ~Distributed
    /\ pc' = SetupTailPc
    /\ UNCHANGED <<config, err, start_step, step, iterPos, batch, params,
                   mode, optim, disk, evalPos, evalStep, evalCaller, lastSave,
                   run, other>>

\* --------------------------------------------------------------- train()
\* lines 124-137: the statements of the loop body after train_iteration, in
\* the order the code has them
DueOrderRenderFirst == <<"log", "render", "save", "test", "flush">>

DueOrder == <<"log", "save", "render", "test", "flush">>

IndexOf(k) == CHOOSE i \in 1 .. Len(DueOrder) : DueOrder[i] = k

\* the statement after statement k, "loop" (the loop head) after the last
After(k) ==
    IF IndexOf(k) = Len(DueOrder) THEN "loop" ELSE DueOrder[IndexOf(k) + 1]

\* statement k is done: control moves on, and range() yields the next step
\* when the loop head is reached
Done(k) ==
    /\ pc' = After(k)
    /\ step' = (IF After(k) = "loop" THEN step + 1 ELSE step)

RangeStartRewound == IF start_step > 0 THEN start_step - 1 ELSE start_step

\* line 116: range(self.start_step, self.start_step + num_iterations)
RangeStart == start_step

RangeStopAbsolute == config.max_num_iterations

RangeStop == start_step + config.max_num_iterations

\* lines 110-115: the scene is drawn when a viewer is attached, and the
\* training iterator is created
TrainBegin ==
    /\ pc = "ready"
    /\ trace' = (IF config.viewer.enable
                 THEN trace \o <<Ev("train", None), Ev("draw_scene", None)>>
                 ELSE Emit("train", None))
    /\ iterPos' = 0
    /\ step' = RangeStart
    /\ pc' = "loop"
    /\ UNCHANGED <<config, err, start_step, batch, params, mode, wrapped,
                   registered, optim, disk, evalPos, evalStep, evalCaller,
                   lastSave, run, other>>

\* lines 116-118: the loop head and next(iter_dataloader_train)
FetchBatch ==
    /\ pc = "loop"
    /\ step < RangeStop
    /\ batch' = ReaderBatch(iterPos)
    /\ iterPos' = iterPos + 1
    /\ trace' = Emit("fetch", step)
    /\ pc' = "forward"
    /\ UNCHANGED <<config, err, start_step, step, params, mode, wrapped,
                   registered, optim, disk, evalPos, evalStep, evalCaller,
                   lastSave, run, other>>

\* an exception leaves train(): nothing catches it
Raise(kind) ==
    /\ pc' = "failed"
    /\ err' = kind

\* line 199: graph.forward returns the loss dictionary
Forward ==
    /\ pc = "forward"
    /\ trace' = Emit("iter_begin", step)
    /\ pc' = "backward"
    /\ UNCHANGED <<config, err, start_step, step, iterPos, batch, params,
                   mode, wrapped, registered, optim, disk, evalPos, evalStep,
                   evalCaller, lastSave, run, other>>

ForwardFailsCaught ==
    /\ pc = "forward"
    /\ trace' = Emit("iter_begin", step)
    /\ err' = "ModelComputation"
    /\ pc' = DueOrder[1]
    /\ UNCHANGED <<config, start_step, step, iterPos, batch, params, mode,
                   wrapped, registered, optim, disk, evalPos, evalStep,
                   evalCaller, lastSave, run, other>>

\* line 199: graph.forward raises
ForwardFails ==
    /\ pc = "forward"
    /\ trace' = Emit("iter_begin", step)
    /\ Raise("ModelComputation")
    /\ UNCHANGED <<config, start_step, step, iterPos, batch, params, mode,
                   wrapped, registered, optim, disk, evalPos, evalStep,
                   evalCaller, lastSave, run, other>>

\* lines 199-203: the parameters after one optimizer step on batch b
ApplyBatch(p, b) == Append(p, b)

\* lines 203-204: the optimizers after optimizer_step_all and
\* scheduler_step_all(s)
ApplyStep(o, s) == Append(o, s)

\* line 202 on a wrapped graph: loss.backward reduces the gradients across
\* the replicas, so it returns once the other replica has entered backward
\* for the same step (or has already left it)
GradientsReduced ==
    IF wrapped /\ HasPeer
    THEN \/ (Peer.pc = "backward" /\ Peer.step = step)
         \/ \E i \in DOMAIN Peer.trace : Peer.trace[i] = Ev("iter_end", step)
    ELSE TRUE

\* lines 201-208: zero_grad_all, loss.backward, optimizer_step_all,
\* scheduler_step_all(step) and the callbacks' after_step(step)
Backward ==
    /\ pc = "backward"
    /\ GradientsReduced
    /\ params' = ApplyBatch(params, batch)
    /\ optim' = ApplyStep(optim, step)
    /\ trace' = Emit("iter_end", step)
    /\ pc' = DueOrder[1]
    /\ UNCHANGED <<config, err, start_step, step, iterPos, batch, mode,
                   wrapped, registered, disk, evalPos, evalStep, evalCaller,
                   lastSave, run, other>>

\* line 202: loss.backward raises, before any optimizer has stepped
BackwardFails ==
    /\ pc = "backward"
    /\ trace' = Emit("zero_grad", step)
    /\ Raise("ModelComputation")
    /\ UNCHANGED <<config, start_step, step, iterPos, batch, params, mode,
                   wrapped, registered, optim, disk, evalPos, evalStep,
                   evalCaller, lastSave, run, other>>

\* ---------------------------------------------------- the due actions
\* Python's step % d raises ZeroDivisionError when d is 0
Divides(d, s) == s % d = 0

\* line 124
LogRaises(s) == s # 0 /\ config.steps_per_log = 0

LogDueAtZero(s) == s = 0 \/ Divides(config.steps_per_log, s)

LogDue(s) == s # 0 /\ Divides(config.steps_per_log, s)

SaveDueEveryStep(s) == s # 0 /\ Truthy(config.steps_per_save)

\* line 126
SaveDue(s) ==
    /\ s # 0
    /\ Truthy(config.steps_per_save)
    /\ Divides(config.steps_per_save, s)

\* lines 128-133
RenderDue(s) ==
    /\ config.viewer.enable
    /\ s # 0
    /\ Truthy(config.viewer.steps_per_render_image)
    /\ Divides(config.viewer.steps_per_render_image, s)

\* line 135
TestRaises(s) == config.steps_per_test = 0

TestDueNotAtZero(s) == s # 0 /\ Divides(config.steps_per_test, s)

TestDue(s) == Divides(config.steps_per_test, s)

\* lines 147-152, with the short circuit of "or": a disjunct is evaluated
\* only when all the disjuncts before it are false
FlushRaises(s) ==
    \/ config.steps_per_log = 0
    \/ /\ ~Divides(config.steps_per_log, s)
       /\ ~(Truthy(config.steps_per_save) /\ Divides(config.steps_per_save, s))
       /\ config.steps_per_test = 0

FlushDue(s) ==
    \/ Divides(config.steps_per_log, s)
    \/ (Truthy(config.steps_per_save) /\ Divides(config.steps_per_save, s))
    \/ Divides(config.steps_per_test, s)
    \/ s = config.max_num_iterations

\* line 124-125: writer.put_dict of the loss dictionary
LogMetrics ==
    /\ pc = "log"
    /\ IF LogRaises(step)
       THEN Raise("ZeroDivision") /\ UNCHANGED <<trace, step>>
       ELSE /\ trace' = (IF LogDue(step) THEN Emit("log", step) ELSE trace)
            /\ Done("log")
            /\ UNCHANGED err
    /\ UNCHANGED <<config, start_step, iterPos, batch, params, mode,
                   wrapped, registered, optim, disk, evalPos, evalStep,
                   evalCaller, lastSave, run, other>>

\* lines 175-185: the body of _save_checkpoint
WriteCheckpoint(s) ==
    /\ disk' = SaveFile(SavePath(s), CheckpointContent(s))
    /\ lastSave' = {r \in lastSave : r.step # s}
                   \cup {[step |-> s, model |-> params, optimizers |-> optim]}
    /\ trace' = Emit("save", s)

SaveCheckpointAllRanks ==
    /\ pc = "save"
    /\ IF SaveDue(step)
       THEN WriteCheckpoint(step)
       ELSE UNCHANGED <<disk, lastSave, trace>>
    /\ Done("save")
    /\ UNCHANGED <<config, err, start_step, iterPos, batch, params,
                   mode, wrapped, registered, optim, evalPos, evalStep,
                   evalCaller, run, other>>

\* lines 126-127: _save_checkpoint(model_dir, step) when due
SaveCheckpoint ==
    /\ pc = "save"
    /\ IF SaveDue(step) /\ check_main_thread
       THEN WriteCheckpoint(step)
       ELSE UNCHANGED <<disk, lastSave, trace>>
    /\ Done("save")
    /\ UNCHANGED <<config, err, start_step, iterPos, batch, params,
                   mode, wrapped, registered, optim, evalPos, evalStep,
                   evalCaller, run, other>>

\* lines 128-133: no render is due
RenderSkip ==
    /\ pc = "render"
    /\ ~RenderDue(step)
    /\ Done("render")
    /\ UNCHANGED <<config, err, start_step, iterPos, batch, params,
                   mode, wrapped, registered, optim, disk, evalPos, evalStep,
                   evalCaller, trace, lastSave, run, other>>

\* lines 258-272: the camera is pulled from the viewer and decoded, the
\* ray bundle is built and the graph is switched to eval mode
RenderPull ==
    /\ pc = "render"
    /\ RenderDue(step)
    /\ mode' = "eval"
    /\ trace' = Emit("render", step)
    /\ pc' = "render_outputs"
    /\ UNCHANGED <<config, err, start_step, step, iterPos, batch, params,
                   wrapped, registered, optim, disk, evalPos, evalStep,
                   evalCaller, lastSave, run, other>>

\* lines 258-260: the viewer is gone or its message is malformed
RenderPullFails ==
    /\ pc = "render"
    /\ RenderDue(step)
    /\ trace' = Emit("render", step)
    /\ Raise("ViewerCommunication")
    /\ UNCHANGED <<config, start_step, step, iterPos, batch, params, mode,
                   wrapped, registered, optim, disk, evalPos, evalStep,
                   evalCaller, lastSave, run, other>>

\* lines 273-281: the image is rendered, the graph is switched back to train
\* mode and the image is pushed to the viewer
RenderOutputs ==
    /\ pc = "render_outputs"
    /\ mode' = "train"
    /\ trace' = Emit("rendered", step)
    /\ Done("render")
    /\ UNCHANGED <<config, err, start_step, iterPos, batch, params, wrapped,
                   registered, optim, disk, evalPos, evalStep, evalCaller,
                   lastSave, run, other>>

\* line 273: get_outputs_for_camera_ray_bundle raises, line 274 is not reached
RenderOutputsFails ==
    /\ pc = "render_outputs"
    /\ Raise("ViewerRender")
    /\ UNCHANGED <<config, start_step, step, iterPos, batch, params, mode,
                   wrapped, registered, optim, disk, evalPos, evalStep,
                   evalCaller, trace, lastSave, run, other>>

\* line 280: set_image raises, after line 274 has restored train mode
RenderPushFails ==
    /\ pc = "render_outputs"
    /\ mode' = "train"
    /\ trace' = Emit("rendered", step)
    /\ Raise("ViewerCommunication")
    /\ UNCHANGED <<config, start_step, step, iterPos, batch, params, wrapped,
                   registered, optim, disk, evalPos, evalStep, evalCaller,
                   lastSave, run, other>>

\* lines 135-136: eval_with_dataloader(dataloader_eval, step) when due
TestCadence ==
    /\ pc = "test"
    /\ IF TestRaises(step)
       THEN Raise("ZeroDivision") /\ UNCHANGED <<trace, evalPos, evalStep, step>>
       ELSE /\ UNCHANGED err
            /\ IF TestDue(step)
               THEN /\ pc' = "eval"
                    /\ evalPos' = 0
                    /\ evalStep' = step
                    /\ trace' = Emit("eval", step)
                    /\ UNCHANGED step
               ELSE /\ Done("test")
                    /\ UNCHANGED <<trace, evalPos, evalStep>>
    /\ UNCHANGED <<config, start_step, iterPos, batch, params, mode,
                   wrapped, registered, optim, disk, evalCaller, lastSave, run, other>>

\* ------------------------------------------------- eval_with_dataloader
\* line 290 and line 222: the reader yields a pair and test_image switches
\* the graph to eval mode
EvalNext ==
    /\ pc = "eval"
    /\ evalPos < MaxEvalLen
    /\ evalPos' = evalPos + 1
    /\ mode' = "eval"
    /\ pc' = "test_image"
    /\ UNCHANGED <<config, err, start_step, step, iterPos, batch, params,
                   wrapped, registered, optim, disk, evalStep, evalCaller,
                   trace, lastSave, run, other>>

TestImageNoRestore ==
    /\ pc = "test_image"
    /\ pc' = "eval"
    /\ UNCHANGED <<config, err, start_step, step, iterPos, batch, params,
                   mode, wrapped, registered, optim, disk, evalPos, evalStep,
                   evalCaller, trace, lastSave, run, other>>

\* lines 223-227: the image is rendered and scored, and the graph is switched
\* back to train mode
TestImage ==
    /\ pc = "test_image"
    /\ mode' = "train"
    /\ pc' = "eval"
    /\ UNCHANGED <<config, err, start_step, step, iterPos, batch, params,
                   wrapped, registered, optim, disk, evalPos, evalStep,
                   evalCaller, trace, lastSave, run, other>>

\* line 224 or line 225 raises: line 226 is not reached
TestImageFails ==
    /\ pc = "test_image"
    /\ Raise("Evaluation")
    /\ UNCHANGED <<config, start_step, step, iterPos, batch, params, mode,
                   wrapped, registered, optim, disk, evalPos, evalStep,
                   evalCaller, trace, lastSave, run, other>>

\* line 290: the reader is exhausted and eval_with_dataloader returns
EvalReturn ==
    /\ pc = "eval"
    /\ IF evalCaller = "train"
       THEN Done("test")
       ELSE pc' = "returned" /\ UNCHANGED step
    /\ trace' = Emit("eval_end", evalStep)
    /\ UNCHANGED <<config, err, start_step, iterPos, batch, params,
                   mode, wrapped, registered, optim, disk, evalPos, evalStep,
                   evalCaller, lastSave, run, other>>

\* ---------------------------------------------------- _write_out_storage
\* lines 147-153, on the trace tr
WriteOutStorage(s, tr) ==
    IF FlushRaises(s)
    THEN Raise("ZeroDivision") /\ trace' = tr
    ELSE /\ trace' = (IF FlushDue(s) THEN Append(tr, Ev("flush", s)) ELSE tr)
         /\ UNCHANGED err

\* line 137, the last statement of the loop body
FlushStep ==
    /\ pc = "flush"
    /\ WriteOutStorage(step, trace)
    /\ IF FlushRaises(step)
       THEN UNCHANGED step
       ELSE Done("flush")
    /\ UNCHANGED <<config, start_step, iterPos, batch, params, mode, wrapped,
                   registered, optim, disk, evalPos, evalStep, evalCaller,
                   lastSave, run, other>>

\* line 139: the loop is over, _write_out_storage(num_iterations)
FinalFlush ==
    /\ pc = "loop"
    /\ ~(step < RangeStop)
    /\ WriteOutStorage(config.max_num_iterations,
                       Emit("loop_end", config.max_num_iterations))
    /\ IF FlushRaises(config.max_num_iterations)
       THEN TRUE
       ELSE pc' = "done"
    /\ UNCHANGED <<config, start_step, step, iterPos, batch, params, mode,
                   wrapped, registered, optim, disk, evalPos, evalStep,
                   evalCaller, lastSave, run, other>>

\* ------------------------------------------------------------- restart
\* The process has ended; the same configuration is started again as a new
\* process on the same checkpoint directory, with resume_train set anew.
Restart ==
    /\ pc \in {"done", "failed"}
    /\ other = << >>
    /\ run < MaxRuns
    /\ \E r \in Resumes : config' = [config EXCEPT !.resume_train = r]
    /\ pc' = "constructed"
    /\ err' = "none"
    /\ start_step' = 0
    /\ step' = 0
    /\ iterPos' = 0
    /\ batch' = None
    /\ params' = << >>
    /\ mode' = "train"
    /\ wrapped' = FALSE
    /\ registered' = FALSE
    /\ optim' = << >>
    /\ evalPos' = 0
    /\ evalStep' = 0
    /\ trace' = << >>
    /\ run' = run + 1
    /\ UNCHANGED <<disk, evalCaller, lastSave, other>>

Next ==
    \/ SetupMissingCheckpoint
    \/ SetupResume
    \/ SetupFresh
    \/ BarrierPass
    \/ TrainBegin
    \/ FetchBatch
    \/ Forward
    \/ ForwardFails
    \/ Backward
    \/ BackwardFails
    \/ LogMetrics
    \/ SaveCheckpoint
    \/ RenderSkip
    \/ RenderPull
    \/ RenderPullFails
    \/ RenderOutputs
    \/ RenderOutputsFails
    \/ RenderPushFails
    \/ TestCadence
    \/ EvalNext
    \/ TestImage
    \/ TestImageFails
    \/ EvalReturn
    \/ FlushStep
    \/ FinalFlush
    \/ Restart

Spec == Init /\ [][Next]_vars

\* ----------------------------------------------- a two-replica job
\* world_size = 2: two processes run the same Trainer code on the same
\* configuration, told apart by local_rank only. The variables of the
\* Trainer hold the replica that takes the next step; `other` holds the one
\* that waits. The checkpoint directory is shared.
Locals ==
    [config |-> config, pc |-> pc, err |-> err, start_step |-> start_step,
     step |-> step, iterPos |-> iterPos, batch |-> batch, params |-> params,
     mode |-> mode, wrapped |-> wrapped, registered |-> registered,
     optim |-> optim, evalPos |-> evalPos, evalStep |-> evalStep,
     evalCaller |-> evalCaller, trace |-> trace]

\* the scheduler lets the other replica run
Switch ==
    /\ HasPeer
    /\ other' = <<Locals>>
    /\ config' = Peer.config
    /\ pc' = Peer.pc
    /\ err' = Peer.err
    /\ start_step' = Peer.start_step
    /\ step' = Peer.step
    /\ iterPos' = Peer.iterPos
    /\ batch' = Peer.batch
    /\ params' = Peer.params
    /\ mode' = Peer.mode
    /\ wrapped' = Peer.wrapped
    /\ registered' = Peer.registered
    /\ optim' = Peer.optim
    /\ evalPos' = Peer.evalPos
    /\ evalStep' = Peer.evalStep
    /\ evalCaller' = Peer.evalCaller
    /\ trace' = Peer.trace
    /\ UNCHANGED <<disk, lastSave, run>>

DistLogs == {1}
DistSaves == {1, 2}
DistTests == {1, 2}
DistViewers == {[enable |-> FALSE, steps_per_render_image |-> None],
                [enable |-> TRUE, steps_per_render_image |-> 2]}

DistResumes == [load_dir : {ModelDir}, load_step : {1}]

\* the configurations of replica 0 of a fresh job, of one or two replicas
DistConfigs ==
    {c \in Configs :
        /\ c.dist.local_rank = 0
        /\ c.resume_train.load_dir = None
        /\ c.resume_train.load_step = 0
        /\ c.steps_per_log \in DistLogs
        /\ c.steps_per_save \in DistSaves
        /\ c.steps_per_test \in DistTests
        /\ c.viewer \in DistViewers}

InitDist ==
    /\ config \in DistConfigs
    /\ pc = "constructed"
    /\ err = "none"
    /\ start_step = 0
    /\ step = 0
    /\ iterPos = 0
    /\ batch = None
    /\ params = << >>
    /\ mode = "train"
    /\ wrapped = FALSE
    /\ registered = FALSE
    /\ optim = << >>
    /\ disk = {}
    /\ evalPos = 0
    /\ evalStep = 0
    /\ evalCaller = "train"
    /\ trace = << >>
    /\ lastSave = {}
    /\ run = 1
    /\ other = (IF Distributed
                THEN <<[Locals EXCEPT !.config.dist.local_rank = 1]>>
                ELSE << >>)

\* every replica of the job has returned from train()
JobEnded ==
    /\ pc = "done"
    /\ HasPeer => Peer.pc = "done"

\* The job has run to its end; the same job is started again on the same
\* checkpoint directory, every replica told to resume from the same checkpoint.
RestartJob ==
    /\ JobEnded
    /\ config.dist.local_rank = 0
    /\ run < MaxRuns
    /\ \E r \in DistResumes :
          /\ config' = [config EXCEPT !.resume_train = r]
          /\ other' = (IF HasPeer
                       THEN <<[config |-> [Peer.config EXCEPT
                                             !.resume_train = r],
                               pc |-> "constructed", err |-> "none",
                               start_step |-> 0, step |-> 0, iterPos |-> 0,
                               batch |-> None, params |-> << >>,
                               mode |-> "train", wrapped |-> FALSE,
                               registered |-> FALSE, optim |-> << >>,
                               evalPos |-> 0, evalStep |-> 0,
                               evalCaller |-> Peer.evalCaller,
                               trace |-> << >>]>>
                       ELSE << >>)
    /\ pc' = "constructed"
    /\ err' = "none"
    /\ start_step' = 0
    /\ step' = 0
    /\ iterPos' = 0
    /\ batch' = None
    /\ params' = << >>
    /\ mode' = "train"
    /\ wrapped' = FALSE
    /\ registered' = FALSE
    /\ optim' = << >>
    /\ evalPos' = 0
    /\ evalStep' = 0
    /\ trace' = << >>
    /\ run' = run + 1
    /\ UNCHANGED <<disk, evalCaller, lastSave>>

NextDist ==
    \/ SetupMissingCheckpoint
    \/ SetupResume
    \/ SetupFresh
    \/ BarrierPass
    \/ TrainBegin
    \/ FetchBatch
    \/ Forward
    \/ ForwardFails
    \/ Backward
    \/ BackwardFails
    \/ LogMetrics
    \/ SaveCheckpoint
    \/ RenderSkip
    \/ RenderPull
    \/ RenderPullFails
    \/ RenderOutputs
    \/ RenderOutputsFails
    \/ RenderPushFails
    \/ TestCadence
    \/ EvalNext
    \/ TestImage
    \/ TestImageFails
    \/ EvalReturn
    \/ FlushStep
    \/ FinalFlush
    \/ Switch
    \/ RestartJob

SpecDist == InitDist /\ [][NextDist]_vars

\* ------------------------------------------- reading the trace of a run
NumIterations == config.max_num_iterations

Idx(kind) == {i \in DOMAIN trace : trace[i].kind = kind}

StepsOf(kind) == {trace[i].step : i \in Idx(kind)}

Happened(kind, s) == \E i \in Idx(kind) : trace[i].step = s

\* where the step loop ended in the trace, past its end while it has not
LoopEnd ==
    IF Idx("loop_end") = {} THEN Len(trace) + 1
    ELSE CHOOSE i \in Idx("loop_end") : \A j \in Idx("loop_end") : i <= j

\* the events of the step loop: those before the loop has ended
InLoop(i) == i < LoopEnd

\* the steps one call of train() is to run
TrainRange == start_step .. (start_step + NumIterations - 1)

\* C1: train() runs an iteration for the steps start_step, start_step+1, ...
\* in strictly increasing order without gaps, each at most once and none
\* outside start_step .. start_step+N-1; exactly one batch is fetched
\* immediately before each iteration; and when train() returns every step of
\* the range has been run to completion.
C1_TrainRunsRange ==
    /\ StepsOf("iter_begin") \subseteq TrainRange
    /\ \A i, j \in Idx("iter_begin") :
           i < j => trace[i].step < trace[j].step
    /\ StepsOf("iter_begin") =
           start_step .. (start_step + Cardinality(Idx("iter_begin")) - 1)
    /\ \A i \in Idx("iter_begin") :
           i > 1 /\ trace[i - 1] = Ev("fetch", trace[i].step)
    /\ \A i \in Idx("fetch") :
           IF i < Len(trace)
           THEN trace[i + 1] = Ev("iter_begin", trace[i].step)
           ELSE pc = "forward"
    /\ Cardinality(Idx("fetch")) = (IF pc \in {"constructed", "ready"}
                                    THEN 0 ELSE iterPos)
    /\ pc = "done" =>
           /\ StepsOf("iter_end") = TrainRange
           /\ Cardinality(Idx("iter_end")) = NumIterations
           /\ Cardinality(Idx("fetch")) = NumIterations

\* a resumed run has returned from train() after more than one step
C1_Witness ==
    /\ pc = "done"
    /\ start_step > 0
    /\ NumIterations >= 2

\* position of a kind of event in the order the claim gives
Rank(kind) ==
    CASE kind \in {"fetch", "iter_begin", "zero_grad", "iter_end"} -> 0
      [] kind = "log" -> 1
      [] kind = "save" -> 2
      [] kind \in {"render", "rendered"} -> 3
      [] kind \in {"eval", "eval_end"} -> 4
      [] kind = "flush" -> 5
      [] OTHER -> 6

\* C2: within a step the side effects follow the step's train_iteration, in
\* the order log, save, render, evaluation, flush, and nothing of a step
\* happens after something of a later step.
C2_DueActionsInOrder ==
    LET end == LoopEnd
        iterEnds == Idx("iter_end")
    IN  /\ \A i \in 2 .. (end - 1) :
               (Rank(trace[i].kind) < 6 /\ Rank(trace[i - 1].kind) < 6) =>
                   \/ trace[i - 1].step < trace[i].step
                   \/ /\ trace[i - 1].step = trace[i].step
                      /\ Rank(trace[i - 1].kind) <= Rank(trace[i].kind)
        /\ \A j \in 1 .. (end - 1) :
               Rank(trace[j].kind) \in 1 .. 5 =>
                   \E i \in iterEnds :
                       i < j /\ trace[i].step = trace[j].step

\* all five side effects were performed at one step
C2_Witness ==
    \E s \in StepsOf("flush") :
        /\ Happened("log", s) /\ Happened("save", s)
        /\ Happened("rendered", s) /\ Happened("eval_end", s)
        /\ \E i \in Idx("flush") : trace[i].step = s /\ InLoop(i)

\* a checkpoint was loaded by this process's setup()
Loaded == Idx("load") # {}

\* the model after uninterrupted training through step t from the initial
\* state, the deterministic reader being read from its start
RECURSIVE UninterruptedParams(_)
UninterruptedParams(t) ==
    IF t < 0 THEN << >>
    ELSE ApplyBatch(UninterruptedParams(t - 1), ReaderBatch(t))

RECURSIVE UninterruptedOptim(_)
UninterruptedOptim(t) ==
    IF t < 0 THEN << >> ELSE ApplyStep(UninterruptedOptim(t - 1), t)

\* C3: a run resumed from the checkpoint of step S (itself the state of
\* uninterrupted training through S) that trains N >= 1 further iterations
\* ends in the model and optimizer state of uninterrupted training through
\* step S + N.
C3_ResumptionIdempotent ==
    (/\ pc = "done"
     /\ Loaded
     /\ NumIterations >= 1
     /\ PathExists(LoadPath)
     /\ LoadFile(LoadPath).model = UninterruptedParams(start_step - 1)
     /\ LoadFile(LoadPath).optimizers = UninterruptedOptim(start_step - 1))
    => /\ params = UninterruptedParams(start_step - 1 + NumIterations)
       /\ optim = UninterruptedOptim(start_step - 1 + NumIterations)

\* C4: after a checkpoint was saved at step S, a setup() that loads the file
\* of step S has start_step = S + 1 and the model and optimizer states are
\* those at the moment of that save.
C4_CheckpointRoundTrip ==
    (pc = "ready" /\ Loaded) =>
        \E r \in lastSave :
            /\ r.step = config.resume_train.load_step
            /\ start_step = r.step + 1
            /\ params = r.model
            /\ optim = r.optimizers

\* the checkpoint of step 2, written by a distributed run, has been loaded
C4_Witness ==
    /\ pc = "ready"
    /\ Loaded
    /\ start_step = 3
    /\ wrapped

\* C5: start_step is 1 + the step of the checkpoint this process loaded, and
\* 0 if it loaded none; saving checkpoints during train() does not move it.
C5_StartStepIsResumeCursor ==
    IF Loaded
    THEN /\ start_step = 1 + config.resume_train.load_step
         /\ \A i \in Idx("load") : start_step = 1 + trace[i].step
    ELSE start_step = 0

\* a resumed run has saved a checkpoint of its own and returned
C5_Witness ==
    /\ Loaded
    /\ pc = "done"
    /\ \E s \in StepsOf("save") : s >= start_step

\* C6: when the resume checkpoint is missing, setup() fails with nothing
\* done: start_step is 0, model and optimizers are as built, the graph is
\* not wrapped, no barrier was run, no callbacks are registered and no
\* training step runs.
C6_MissingCheckpointFailsClean ==
    err = "CheckpointNotFound" =>
        /\ pc = "failed"
        /\ start_step = 0
        /\ params = << >>
        /\ optim = << >>
        /\ mode = "train"
        /\ ~wrapped
        /\ ~registered
        /\ iterPos = 0
        /\ trace = <<Ev("setup", None)>>

\* a distributed run fails to find its checkpoint in a directory that holds
\* other checkpoints
C6_Witness ==
    /\ err = "CheckpointNotFound"
    /\ Distributed
    /\ disk # {}

\* C7: a zero cadence is rejected by setup(): when the error surfaces no
\* batch has been fetched, no training iteration has run and no optimizer
\* has stepped.
C7_ZeroCadenceRejectedAtSetup ==
    err = "ZeroDivision" =>
        /\ Idx("fetch") = {}
        /\ Idx("iter_end") = {}
        /\ optim = (IF Loaded THEN UninterruptedOptim(start_step - 1) ELSE << >>)

\* C8: when forward or backward fails at step s the process ends there: the
\* failed step changes neither model nor optimizers, no checkpoint of step s
\* or later is written by this run and no later step is run; and every
\* checkpoint, written or on disk, holds the state right after the completed
\* train_iteration of its own step.
C8_FailedIterationAborts ==
    /\ err = "ModelComputation" =>
           /\ pc = "failed"
           /\ trace[Len(trace)].kind \in {"iter_begin", "zero_grad"}
           /\ trace[Len(trace)].step = step
           /\ ~Happened("iter_end", step)
           /\ \A s \in StepsOf("save") : s < step
           /\ \A s \in StepsOf("iter_begin") : s <= step
           /\ Len(params) = Cardinality(Idx("iter_end"))
                            + (IF Loaded THEN start_step ELSE 0)
           /\ Len(optim) = Len(params)
    /\ \A i \in Idx("save") :
           \E j \in 1 .. (i - 1) : trace[j] = Ev("iter_end", trace[i].step)
    /\ \A f \in disk :
           /\ f.path = SavePath(f.content.step)
           /\ Len(f.content.optimizers) = Len(f.content.model)
           /\ Len(f.content.optimizers) > 0
           /\ f.content.optimizers[Len(f.content.optimizers)] = f.content.step

\* backward fails in a run that has written a checkpoint at an earlier step
C8_Witness ==
    /\ err = "ModelComputation"
    /\ trace[Len(trace)].kind = "zero_grad"
    /\ StepsOf("save") # {}

\* C10: a failure of rendering or scoring inside test_image leaves the
\* evaluation runner with the model in training mode.
C10_TrainModeRestoredOnFailure ==
    err = "Evaluation" => mode = "train"

\* ---------------------------------- eval_with_dataloader called directly
\* A trainer whose setup() has completed, whose graph is in either mode, and
\* on which eval_with_dataloader(dataloader_eval, step) is called.
InitEval ==
    /\ config \in {c \in Configs : ~Truthy(c.resume_train.load_dir)}
    /\ pc = "eval"
    /\ err = "none"
    /\ start_step = 0
    /\ step = 0
    /\ iterPos = 0
    /\ batch = None
    /\ params = << >>
    /\ mode \in {"train", "eval"}
    /\ wrapped = (config.dist.world_size > 1)
    /\ registered = TRUE
    /\ optim = << >>
    /\ disk = {}
    /\ evalPos = 0
    /\ evalStep \in 0 .. MaxIter
    /\ evalCaller = "direct"
    /\ trace = << >>
    /\ lastSave = {}
    /\ run = 1
    /\ other = << >>

NextEval ==
    \/ EvalNext
    \/ TestImage
    \/ TestImageFails
    \/ EvalReturn

SpecEval == InitEval /\ [][NextEval]_vars

\* C9: whatever the number of pairs the reader yields and whatever the mode
\* at the call, the model is in training mode when eval_with_dataloader
\* returns.
C9_EvalLeavesTrainMode ==
    pc = "returned" => mode = "train"


\* C11: a failure of the viewer side channel inside render_image_in_viewer
\* is isolated: it never ends the process, the step loop goes on.
C11_ViewerFailureIsolated ==
    ~(pc = "failed" /\ err = "ViewerCommunication")

\* ------------------------------------------- the replicas of a job
Replicas == {Locals} \cup (IF HasPeer THEN {Peer} ELSE {})

\* the indices and the steps of the events of one kind in a replica's trace
IdxIn(r, kind) == {i \in DOMAIN r.trace : r.trace[i].kind = kind}

StepsIn(r, kind) == {r.trace[i].step : i \in IdxIn(r, kind)}

\* the statement of the loop body a replica at position p is in
StmtOf(p) ==
    IF p = "render_outputs" THEN "render"
    ELSE IF p \in {"eval", "test_image"} THEN "test"
    ELSE p

InDueStatements(p) == \E i \in DOMAIN DueOrder : DueOrder[i] = StmtOf(p)

\* replica r has completed statement k of the loop body at step s
PassedIn(r, k, s) ==
    /\ s \in StepsIn(r, "iter_end")
    /\ \/ r.step > s
       \/ /\ r.step = s
          /\ InDueStatements(r.pc)
          /\ IndexOf(StmtOf(r.pc)) > IndexOf(k)

\* the steps a run can be at
Steps == 0 .. (2 * MaxIter + 1)

\* a step of the loop body that involves this replica only
DueStatementStep ==
    \/ LogMetrics
    \/ SaveCheckpoint
    \/ RenderSkip
    \/ RenderPull
    \/ RenderOutputs
    \/ TestCadence
    \/ EvalNext
    \/ TestImage
    \/ EvalReturn
    \/ FlushStep

\* C12: in a job of several replicas, the checkpoint of a step at which a
\* save is due is written by the replica of local rank 0, once, and by no
\* other replica; a replica inside the statements that follow the training
\* iteration can always take its next step, whatever the writer is doing.
C12_SingleWriter ==
    /\ \A r \in Replicas :
          IF r.config.dist.local_rank = 0
          THEN \A s \in Steps :
                  /\ Cardinality({i \in IdxIn(r, "save") :
                                      r.trace[i].step = s}) <= 1
                  /\ PassedIn(r, "save", s) =>
                        (s \in StepsIn(r, "save") <=>
                            /\ s # 0
                            /\ r.config.steps_per_save \notin {None, 0}
                            /\ s % r.config.steps_per_save = 0)
          ELSE IdxIn(r, "save") = {}
    /\ (InDueStatements(pc) /\ err = "none") => ENABLED DueStatementStep

\* the replica of rank 1 is past the save statement of a step at which a save
\* is due while the writer, which has written an earlier checkpoint, has not
\* yet written the checkpoint of that step
C12_Witness ==
    /\ HasPeer
    /\ \E w \in Replicas : \E r \in Replicas : \E s \in Steps :
          /\ w.config.dist.local_rank = 0
          /\ r.config.dist.local_rank = 1
          /\ w.config.steps_per_save = 1
          /\ s > 1
          /\ PassedIn(r, "save", s)
          /\ (s - 1) \in StepsIn(w, "save")
          /\ s \notin StepsIn(w, "save")
          /\ PathExists(SavePath(s - 1))
          /\ ~PathExists(SavePath(s))

\* C13: setup() wraps the graph and runs the barrier exactly when
\* world_size > 1, once each, after the checkpoint load and before the
\* callbacks are registered; no replica starts train() before every replica
\* has entered the barrier; nothing in the step loop is a barrier.
C13_WrapAndBarrierInSetup ==
    \A r \in Replicas :
        LET W == IdxIn(r, "wrap")
            B == IdxIn(r, "barrier")
            G == IdxIn(r, "register_callbacks")
            L == IdxIn(r, "load")
            T == IdxIn(r, "train")
        IN  /\ r.config.dist.world_size > 1 =>
                  /\ Cardinality(W) = (IF r.pc \in {"constructed", "failed"}
                                          /\ T = {} /\ B = {}
                                       THEN 0 ELSE 1)
                  /\ Cardinality(B) = Cardinality(W)
                  /\ r.wrapped <=> W # {}
                  /\ \A w \in W : \A b \in B : w < b
                  /\ \A l \in L : \A w \in W : l < w
                  /\ \A b \in B : \A g \in G : b < g
                  /\ \A b \in B : \A t \in T : b < t
                  /\ T # {} => \A q \in Replicas : IdxIn(q, "barrier") # {}
            /\ r.config.dist.world_size = 1 =>
                  /\ W = {} /\ B = {}
                  /\ ~r.wrapped
            /\ Cardinality(G) <= 1
            /\ \A g \in G : \A t \in T : g < t
            /\ T # {} => G # {}

\* one replica of a resumed two-replica job is in its step loop, the other
\* has passed the barrier and not yet started train()
C13_Witness ==
    /\ HasPeer
    /\ IdxIn(Locals, "load") # {}
    /\ IdxIn(Locals, "fetch") # {}
    /\ Peer.pc = "ready"
    /\ wrapped /\ Peer.wrapped

\* ------------------------------------------------- the cadence rules
\* The cadence rules as the specification states them, for a replica r and a
\* step s; a rule on a cadence is stated for a positive cadence.
RuleLog(r, s) == s # 0 /\ s % r.config.steps_per_log = 0

RuleSave(r, s) ==
    /\ s # 0
    /\ r.config.steps_per_save \notin {None, 0}
    /\ s % r.config.steps_per_save = 0

RuleTest(r, s) == s % r.config.steps_per_test = 0

RuleFlush(r, s) ==
    \/ RuleLog(r, s)
    \/ RuleSave(r, s)
    \/ RuleTest(r, s)
    \/ s = r.config.max_num_iterations

\* C14: for every step s of the loop, storage is flushed at s exactly when
\* a log, a save or a test is due at s or s = max_num_iterations; and once
\* the loop has ended the flush at max_num_iterations has happened, whatever
\* the cadences and the start step.
C14_FlushWhenDue ==
    /\ (config.steps_per_log > 0 /\ config.steps_per_test > 0) =>
          \A s \in Steps :
              PassedIn(Locals, "flush", s) =>
                  ((\E i \in Idx("flush") : InLoop(i) /\ trace[i].step = s)
                      <=> RuleFlush(Locals, s))
    /\ Idx("loop_end") # {} =>
          /\ pc = "done"
          /\ trace[Len(trace)] = Ev("flush", NumIterations)
          /\ Cardinality({i \in Idx("flush") : ~InLoop(i)}) = 1

\* ------------------------------------------------- a worked scenario
\* A fresh run of ten iterations that logs every five steps, never saves and
\* evaluates every ten steps, with any viewer and any rank.
ScenarioConfigs ==
    [max_num_iterations : {10},
     steps_per_log : {5},
     steps_per_save : {None},
     steps_per_test : {10},
     viewer : Viewers,
     dist : Ranks,
     resume_train : {[load_dir |-> None, load_step |-> 0]}]

InitScenario ==
    /\ config \in ScenarioConfigs
    /\ pc = "constructed"
    /\ err = "none"
    /\ start_step = 0
    /\ step = 0
    /\ iterPos = 0
    /\ batch = None
    /\ params = << >>
    /\ mode = "train"
    /\ wrapped = FALSE
    /\ registered = FALSE
    /\ optim = << >>
    /\ disk = {}
    /\ evalPos = 0
    /\ evalStep = 0
    /\ evalCaller = "train"
    /\ trace = << >>
    /\ lastSave = {}
    /\ run = 1
    /\ other = << >>

NextScenario ==
    \/ SetupFresh
    \/ BarrierPass
    \/ TrainBegin
    \/ FetchBatch
    \/ Forward
    \/ ForwardFails
    \/ Backward
    \/ BackwardFails
    \/ LogMetrics
    \/ SaveCheckpoint
    \/ RenderSkip
    \/ RenderPull
    \/ RenderPullFails
    \/ RenderOutputs
    \/ RenderOutputsFails
    \/ RenderPushFails
    \/ TestCadence
    \/ EvalNext
    \/ TestImage
    \/ TestImageFails
    \/ EvalReturn
    \/ FlushStep
    \/ FinalFlush

SpecScenario == InitScenario /\ [][NextScenario]_vars

\* the flushes of the step loop, and the flushes after it
LoopFlushSteps == {trace[i].step : i \in {j \in Idx("flush") : InLoop(j)}}

FinalFlushSteps == {trace[i].step : i \in {j \in Idx("flush") : ~InLoop(j)}}

\* C15 as stated: in the scenario the loss is logged at step 5 only, nothing
\* is saved, the held-out evaluation runs at step 0 and at step 10, and one
\* flush happens after the loop at step 10.
C15_ScenarioAsStated ==
    pc = "done" =>
        /\ StepsOf("log") = {5}
        /\ StepsOf("save") = {}
        /\ StepsOf("eval") = {0, 10}
        /\ FinalFlushSteps = {10}

\* C15, amended: in the scenario the loop runs steps 0..9; the loss is logged
\* at step 5 only, nothing is saved, the held-out evaluation runs at step 0
\* only, the loop flushes at steps 0 and 5, and after the loop there is one
\* flush, at step 10, with no evaluation at step 10.
C15_Scenario ==
    /\ StepsOf("log") \subseteq {5}
    /\ StepsOf("save") = {}
    /\ disk = {}
    /\ StepsOf("eval") \subseteq {0}
    /\ LoopFlushSteps \subseteq {0, 5}
    /\ pc = "done" =>
          /\ StepsOf("iter_end") = 0 .. 9
          /\ StepsOf("log") = {5}
          /\ StepsOf("eval") = {0}
          /\ StepsOf("eval_end") = {0}
          /\ LoopFlushSteps = {0, 5}
          /\ FinalFlushSteps = {10}
          /\ trace[Len(trace)] = Ev("flush", 10)
          /\ Cardinality(Idx("flush")) = 3

\* the scenario's run has returned from train(), with a viewer attached
C15_Witness ==
    /\ pc = "done"
    /\ config.max_num_iterations = 10
    /\ config.viewer.enable
    /\ Happened("log", 5)
    /\ Happened("eval_end", 0)

\* C16: with steps_per_test > 0 the held-out evaluation of step 0 runs before
\* any training iteration has begun, and at every loop step s the evaluation
\* runs exactly when s mod steps_per_test = 0.
C16_BaselineTestBeforeTraining ==
    config.steps_per_test > 0 =>
        /\ \A i \in Idx("eval") :
              trace[i].step = 0 =>
                  \A j \in 1 .. (i - 1) :
                      trace[j].kind \notin {"iter_begin", "iter_end"}
        /\ \A s \in Steps :
              PassedIn(Locals, "test", s) =>
                  (s \in StepsOf("eval") <=> RuleTest(Locals, s))

\* C17: a checkpoint is saved at loop step s exactly when s # 0, steps_per_save
\* is neither null nor zero and s mod steps_per_save = 0; with steps_per_save
\* null nothing is ever saved. (A save is the running of the body of
\* _save_checkpoint, which is the replica of local rank 0.)
C17_SaveWhenDue ==
    /\ \A s \in StepsOf("save") : RuleSave(Locals, s)
    /\ config.dist.local_rank = 0 =>
          \A s \in Steps :
              (PassedIn(Locals, "save", s) /\ RuleSave(Locals, s)) =>
                  /\ s \in StepsOf("save")
                  /\ PathExists(SavePath(s))
    /\ config.steps_per_save = None => Idx("save") = {}
    /\ \A f \in disk : \E r \in lastSave : f.path = SavePath(r.step)

\* a resumed run has passed the save statement of a step without saving and
\* that of a later step with a save
C17_Witness ==
    /\ Loaded
    /\ config.steps_per_save = 2
    /\ \E s \in StepsOf("save") :
          /\ PassedIn(Locals, "save", s - 1)
          /\ (s - 1) \notin StepsOf("save")
          /\ PassedIn(Locals, "save", s)

\* C18: for steps_per_log > 0 the loss dictionary is logged at loop step s
\* exactly when s # 0 and s mod steps_per_log = 0, and never at step 0.
C18_LogWhenDue ==
    config.steps_per_log > 0 =>
        /\ 0 \notin StepsOf("log")
        /\ \A s \in Steps :
              PassedIn(Locals, "log", s) =>
                  (s \in StepsOf("log") <=> RuleLog(Locals, s))
        /\ \A s \in StepsOf("log") :
              Cardinality({i \in Idx("log") : trace[i].step = s}) = 1

\* a fresh run is past the log statements of steps 0, 1 and 2 and has logged
\* at step 2 only
C18_Witness ==
    /\ config.steps_per_log = 2
    /\ PassedIn(Locals, "log", 0)
    /\ PassedIn(Locals, "log", 1)
    /\ PassedIn(Locals, "log", 2)
    /\ StepsOf("log") = {2}

\* C19: a run resumed from the checkpoint of step S writes checkpoints of
\* steps greater than S only, and the checkpoints one call of train() writes
\* have strictly increasing steps: the run overwrites neither the file it was
\* resumed from nor a file it wrote earlier in the call.
C19_NoCheckpointOverwritten ==
    /\ Loaded =>
          /\ \A s \in StepsOf("save") : s > config.resume_train.load_step
          /\ PathExists(LoadPath)
          /\ LoadFile(LoadPath).step = config.resume_train.load_step
    /\ \A i \in Idx("save") : \A j \in Idx("save") :
          i < j => /\ trace[i].step < trace[j].step
                   /\ SavePath(trace[i].step) # SavePath(trace[j].step)

\* a resumed run has written two checkpoints
C19_Witness ==
    /\ Loaded
    /\ Cardinality(Idx("save")) >= 2
    /\ \A s \in StepsOf("save") : PathExists(SavePath(s))

\* C20: as long as no evaluation and no viewer render has failed, the model
\* is in training mode whenever a training iteration starts or is under way,
\* and it is in inference mode only inside test_image and inside
\* render_image_in_viewer.
C20_TrainModeInIterations ==
    err \notin {"Evaluation", "ViewerRender"} =>
        /\ pc \in {"forward", "backward"} => mode = "train"
        /\ mode = "eval" => pc \in {"test_image", "render_outputs"}

\* an iteration starts right after a step at which an image was rendered for
\* the viewer and a held-out evaluation of the longest reader was run
C20_Witness ==
    /\ pc = "forward"
    /\ mode = "train"
    /\ step >= 1
    /\ Happened("rendered", step - 1)
    /\ Happened("eval_end", step - 1)
    /\ evalStep = step - 1
    /\ evalPos = MaxEvalLen

====
